---- MODULE Spec2Model ----
(***************************************************************************)
(* Centralized ML API: the compilation of a configuration document into a  *)
(* CDK stack (app.py, config/schema.py, stacks/centralised_ml_api_stack.py,*)
(* construct/sagemaker_model_endpoint.py, scripts/utils.py) and the        *)
(* runtime mediating function (functions/example_function/index.py).       *)
(*                                                                         *)
(* Strings the code takes apart character by character (entry names) are   *)
(* sequences of one-character strings; a JSON key that may be missing is    *)
(* an option (<<>> when missing, <<v>> when present); a Python dict is the  *)
(* sequence of its <<key, value>> pairs in insertion order.                 *)
(***************************************************************************)
EXTENDS Naturals, Sequences, FiniteSets

VARIABLES
    config,               \* the parsed configuration document (app.py:22-23)
    pc,                   \* where app.py / the stack constructor stands
    sec,                  \* index of the top-level key the outer loop is at
    idx,                  \* index of the entry the inner loop is at
    api_gateway_policy,   \* resources of api_gateway_role's invoke statement
    endpoints,            \* SagemakerModelEndpoint constructs built so far
    model_endpoint_names, \* the stack's list of the same name
    model_endpoint_name,  \* the stack's local variable of the same name
    routes,               \* API resources added under api.root, with their methods
    lookups,              \* calls made to get_model_info, with their outcome
    plan,                 \* the synthesized cloud assembly, once app.synth() ran
    ENDPOINT_NAME,        \* index.py: the function's environment value
    event,                \* index.py: the API Gateway event being handled
    hpc,                  \* index.py: where lambda_handler stands
    invocation,           \* index.py: the invoke_endpoint call made, if any
    outcome,              \* index.py: what the provider answered
    response,             \* index.py: what lambda_handler returned, if anything
    raised                \* index.py: the exception lambda_handler raised, if any

compileVars == <<config, pc, sec, idx, api_gateway_policy, endpoints,
                 model_endpoint_names, model_endpoint_name, routes, lookups, plan>>
handlerVars == <<ENDPOINT_NAME, event, hpc, invocation, outcome, response, raised>>
vars == <<compileVars, handlerVars>>

---------------------------------------------------------------------------
(* Bounds of the model *)

\* The most entries (models and endpoints together) a configuration holds.
MaxEntries == 2

---------------------------------------------------------------------------
(* Options, dicts, strings *)

None == <<>>
Some(v) == <<v>>
Has(o) == o /= <<>>
Val(o) == o[1]

\* dict: key in d
DictHas(d, k) == \E i \in 1..Len(d) : d[i][1] = k

\* dict: d.get(k, default)
DictGet(d, k, default) ==
    IF DictHas(d, k)
    THEN d[CHOOSE i \in 1..Len(d) : d[i][1] = k][2]
    ELSE default

\* dict: d[k] = v, which keeps the place of a key already there
DictSet(d, k, v) ==
    IF DictHas(d, k)
    THEN [i \in 1..Len(d) |-> IF d[i][1] = k THEN <<k, v>> ELSE d[i]]
    ELSE Append(d, <<k, v>>)

\* dict: {**a, **b}
RECURSIVE DictMerge(_, _)
DictMerge(a, b) ==
    IF b = <<>> THEN a
    ELSE DictMerge(DictSet(a, Head(b)[1], Head(b)[2]), Tail(b))

DictKeys(d) == {d[i][1] : i \in 1..Len(d)}

Elems(s) == {s[i] : i \in 1..Len(s)}

IsPrefix(p, s) == Len(p) <= Len(s) /\ SubSeq(s, 1, Len(p)) = p

\* The characters entry names are written in.
LowerChars == {"f", "g", "h"}
UpperChars == {"F"}
Hyphen == "-"

\* str.isupper for one character
IsUpper(c) == c \in UpperChars

\* str.lower for one character
Lower(c) == IF c = "F" THEN "f" ELSE c

\* str.lstrip('-')
RECURSIVE LStripHyphen(_)
LStripHyphen(s) ==
    IF s /= <<>> /\ Head(s) = Hyphen THEN LStripHyphen(Tail(s)) ELSE s

\* ''.join(['-'+c.lower() if c.isupper() else c for c in s])
RECURSIVE HyphenateUpper(_)
HyphenateUpper(s) ==
    IF s = <<>> THEN <<>>
    ELSE (IF IsUpper(Head(s)) THEN <<Hyphen, Lower(Head(s))>> ELSE <<Head(s)>>)
         \o HyphenateUpper(Tail(s))

camel_to_kebab(s) == LStripHyphen(HyphenateUpper(s))

EndpointSuffix == <<"-", "e", "n", "d", "p", "o", "i", "n", "t">>

\* f"{camel_to_kebab(id)}-endpoint"
EndpointName(id) == camel_to_kebab(id) \o EndpointSuffix

---------------------------------------------------------------------------
(* The schema (config/schema.py) *)

\* "pattern": "^[a-z0-9-]+$"
NamePatternOk(name) ==
    /\ Len(name) >= 1
    /\ \A i \in 1..Len(name) : name[i] \in LowerChars \cup {Hyphen}

\* variant: the enum lets a third type through
IntegrationTypesOpen == {"api", "lambda", "grpc"}

\* "enum": ["api", "lambda"]
IntegrationTypes == {"api", "lambda"}

\* integration.properties: "required": ["code", "permissions", "timeout"]
PropertiesOk(p) == Has(p.code) /\ Has(p.permissions) /\ Has(p.timeout)

\* variant: the condition tests for "api"
IfTypeApi(i) == Has(i.type) => Val(i.type) = "api"

\* "if": {"properties": {"type": {"const": "lambda"}}}: a missing type passes it
IfTypeLambda(i) == Has(i.type) => Val(i.type) = "lambda"

\* the integration object of a model or endpoint entry
IntegrationOk(i) ==
    /\ Has(i.type)
    /\ Val(i.type) \in IntegrationTypes
    /\ (Has(i.properties) => PropertiesOk(Val(i.properties)))
    /\ (IfTypeLambda(i) => Has(i.properties))

\* autoscaling: "required": [max_capacity, min_capacity, invocations_per_instance]
AutoscalingOk(a) ==
    /\ DictHas(a, "max_capacity")
    /\ DictHas(a, "min_capacity")
    /\ DictHas(a, "invocations_per_instance")

\* variant: anyOf without the two "not" clauses
ModelSourceOkLax(e) == Has(e.model_id) \/ Has(e.model_package_arn)

\* "anyOf": [{required model_id, not required model_package_arn}, {the converse}]
ModelSourceOk(e) ==
    \/ (Has(e.model_id) /\ ~Has(e.model_package_arn))
    \/ (Has(e.model_package_arn) /\ ~Has(e.model_id))

\* items of "models"
ModelEntryOk(e) ==
    /\ Has(e.name) /\ Has(e.instance) /\ Has(e.integration)
    /\ NamePatternOk(Val(e.name))
    /\ (Has(e.autoscaling) => AutoscalingOk(Val(e.autoscaling)))
    /\ IntegrationOk(Val(e.integration))
    /\ ModelSourceOk(e)

\* items of "endpoints"
EndpointEntryOk(e) ==
    /\ Has(e.name) /\ Has(e.integration)
    /\ NamePatternOk(Val(e.name))
    /\ IntegrationOk(Val(e.integration))

\* the schema's "properties" of one top-level key; other keys are unconstrained
SectionOk(s) ==
    CASE s.key = "models" -> \A i \in 1..Len(s.items) : ModelEntryOk(s.items[i])
      [] s.key = "endpoints" -> \A i \in 1..Len(s.items) : EndpointEntryOk(s.items[i])
      [] OTHER -> TRUE

\* validate(instance=config, schema=schema) raises no ValidationError
SchemaValid(doc) ==
    /\ \E k \in 1..Len(doc) : doc[k].key = "models"
    /\ \A k \in 1..Len(doc) : SectionOk(doc[k])

---------------------------------------------------------------------------
(* The configuration documents the model is run on *)

Entry(name, model_id, arn, instance, autoscaling, integration) ==
    [name |-> name, model_id |-> model_id, model_package_arn |-> arn,
     instance |-> instance, autoscaling |-> autoscaling,
     integration |-> integration]

Integration(type, headers, properties) ==
    [type |-> type, headers |-> headers, properties |-> properties]

Properties(code, permissions, timeout, environment) ==
    [code |-> code, permissions |-> permissions, timeout |-> timeout,
     environment |-> environment]

NameF == <<"f">>
NameHyphenF == <<"-", "f">>
NameG == <<"g">>
NameH == <<"h">>
NameUpperF == <<"F">>

HeaderChoices ==
    {None, Some(<<"X-Custom">>), Some(<<"Accept", "X-Custom", "X-Custom">>)}

PermissionChoices == {<<>>, <<"s3:GetObject", "sagemaker:InvokeEndpoint">>}

EnvironmentChoices ==
    {None,
     Some(<<<<"LOG_LEVEL", <<"d">>>>>>),
     Some(<<<<"ENDPOINT_NAME", <<"x">>>>, <<"LOG_LEVEL", <<"d">>>>>>)}

FullProperties ==
    {Properties(Some("functions/example_function"), Some(p), Some(10), e) :
        p \in PermissionChoices, e \in EnvironmentChoices}

PartialProperties ==
    {Properties(None, Some(<<>>), Some(10), None),
     Properties(Some("functions/example_function"), None, Some(10), None),
     Properties(Some("functions/example_function"), Some(<<>>), None, None)}

ApiIntegrations == {Some(Integration(Some("api"), h, None)) : h \in HeaderChoices}

LambdaIntegrations ==
    {Some(Integration(Some("lambda"), None, Some(p))) : p \in FullProperties}

\* integrations the schema refuses
BadIntegrations ==
    {None,
     Some(Integration(None, None, None)),
     Some(Integration(Some("grpc"), None, None)),
     Some(Integration(Some("lambda"), None, None))}
    \cup {Some(Integration(Some("lambda"), None, Some(p))) : p \in PartialProperties}
    \cup {Some(Integration(Some("api"), None,
                            Some(Properties(None, Some(<<>>), Some(10), None))))}

AllIntegrations == ApiIntegrations \cup LambdaIntegrations \cup BadIntegrations

PlainApi == Some(Integration(Some("api"), None, None))

AutoscalingChoices ==
    {Some(<<<<"max_capacity", 3>>, <<"min_capacity", 2>>,
            <<"invocations_per_instance", 7>>>>),
     Some(<<<<"max_capacity", 1>>, <<"min_capacity", 2>>,
            <<"invocations_per_instance", 5>>>>),
     Some(<<<<"max_capacity", 3>>>>)}

\* model entries: every name and model source, with a plain api integration;
\* the empty package reference under one name
SourceEntries ==
    {Entry(Some(n), m, a, Some("ml.m5.xlarge"), None, PlainApi) :
        n \in {NameF, NameHyphenF, NameG},
        m \in {None, Some("huggingface-bert")},
        a \in {None, Some("arn:model-package/x")}}
    \cup {Entry(Some(NameG), m, Some(""), Some("ml.m5.xlarge"), None, PlainApi) :
            m \in {None, Some("huggingface-bert")}}
    \cup {Entry(Some(NameUpperF), Some("huggingface-bert"), None,
                Some("ml.m5.xlarge"), None, PlainApi)}

\* model entries: every autoscaling object
AutoscalingEntries ==
    {Entry(Some(NameF), Some("huggingface-bert"), None, Some("ml.m5.xlarge"),
           a, PlainApi) : a \in AutoscalingChoices}

\* model entries: every integration, and one entry with no instance
IntegrationEntries ==
    {Entry(Some(n), Some("huggingface-bert"), None, Some("ml.m5.xlarge"), None, i) :
        n \in {NameF, NameG}, i \in ApiIntegrations \cup LambdaIntegrations}
    \cup {Entry(Some(NameF), Some("huggingface-bert"), None, Some("ml.m5.xlarge"),
                None, i) : i \in BadIntegrations}
    \cup {Entry(Some(NameF), Some("huggingface-bert"), None, None, None, PlainApi)}

ModelEntries == SourceEntries \cup AutoscalingEntries \cup IntegrationEntries

\* entries of pre-existing endpoints
EndpointEntries ==
    {Entry(Some(NameH), None, None, None, None, i) : i \in AllIntegrations}
    \cup {Entry(Some(NameF), None, None, None, None, i) :
            i \in {PlainApi,
                   Some(Integration(Some("lambda"), None,
                        Some(Properties(Some("functions/example_function"),
                                        Some(<<>>), Some(10), None))))}}
    \cup {Entry(Some(NameUpperF), None, None, None, None, PlainApi)}

Section(key, items) == [key |-> key, items |-> items]

\* A document is the sequence of its top-level keys, in the order json.load
\* keeps them (dict order): "models" alone, "endpoints" alone (no "models"
\* key), or both in either order.
KeyOrders == {"models", "endpoints", "models,endpoints", "endpoints,models"}

Document(order, m, e) ==
    CASE order = "models" -> <<Section("models", m)>>
      [] order = "endpoints" -> <<Section("endpoints", e)>>
      [] order = "models,endpoints" -> <<Section("models", m), Section("endpoints", e)>>
      [] order = "endpoints,models" -> <<Section("endpoints", e), Section("models", m)>>

\* the documents with nm model entries and ne endpoint entries
DocumentsOf(nm, ne) ==
    {Document(o, m, e) :
        o \in (IF ne = 0 THEN {"models"}
               ELSE IF nm = 0 THEN KeyOrders \ {"models"}
               ELSE {"models,endpoints", "endpoints,models"}),
        m \in [1..nm -> ModelEntries],
        e \in [1..ne -> EndpointEntries]}

\* The schema constrains no top-level key but "models" and "endpoints"; the
\* items of another key are whatever the document holds. Entries of such a
\* key: with an api integration, a lambda integration with and without
\* permissions, an integration of another type, and no integration.
OtherKey == "extras"

OtherKeyEntries ==
    {Entry(Some(NameH), None, None, None, None, i) :
        i \in {PlainApi,
               None,
               Some(Integration(Some("grpc"), None, None)),
               Some(Integration(Some("lambda"), None,
                    Some(Properties(Some("functions/example_function"),
                                    Some(<<"s3:GetObject", "sagemaker:InvokeEndpoint">>),
                                    Some(10), None)))),
               Some(Integration(Some("lambda"), None,
                    Some(Properties(Some("functions/example_function"),
                                    None, Some(10), None))))}}

\* a document of the keys "models" and "endpoints" with the entries x under
\* another key, written before or after them, or without such a key
OtherKeyPlaces(nx) == IF nx = 0 THEN {"absent"} ELSE {"first", "last"}

WithOtherKey(d, x, place) ==
    CASE place = "absent" -> d
      [] place = "first" -> <<Section(OtherKey, x)>> \o d
      [] place = "last" -> d \o <<Section(OtherKey, x)>>

---------------------------------------------------------------------------
(* The stack constructor's helpers *)

\* Python truthiness of a str-or-None argument: None and "" are false
Truthy(o) == Has(o) /\ Val(o) /= ""

\* the first top-level key from k on that holds an entry, 0 when there is none
RECURSIVE FirstSectionFrom(_, _)
FirstSectionFrom(doc, k) ==
    IF k > Len(doc) THEN 0
    ELSE IF Len(doc[k].items) >= 1 THEN k
    ELSE FirstSectionFrom(doc, k + 1)

\* variant: the inner loop stops after the first entry of a key
NextPositionFirstOnly(doc, k, i) ==
    LET n == FirstSectionFrom(doc, k + 1)
    IN  IF n = 0 THEN <<0, 0>> ELSE <<n, 1>>

\* the nested for loops: the position after <<k, i>>, <<0, 0>> when they are over
NextPosition(doc, k, i) ==
    IF k >= 1 /\ i < Len(doc[k].items) THEN <<k, i + 1>>
    ELSE LET n == FirstSectionFrom(doc, k + 1)
         IN  IF n = 0 THEN <<0, 0>> ELSE <<n, 1>>

\* every entry of every top-level key, in the order the loops visit them
RECURSIVE EntriesFrom(_, _, _)
EntriesFrom(doc, k, i) ==
    LET n == NextPosition(doc, k, i)
    IN  IF n = <<0, 0>> THEN <<>>
        ELSE <<[at |-> n, key |-> doc[n[1]].key, item |-> doc[n[1]].items[n[2]]]>>
             \o EntriesFrom(doc, n[1], n[2])

AllEntries(doc) == EntriesFrom(doc, 0, 0)

\* f"arn:aws:sagemaker:{region}:{account}:endpoint/{item['name']}*": the resource
\* pattern matches the endpoint names that start with prefix
ResourcePattern(item) == [prefix |-> Val(item.name), wildcard |-> TRUE]

\* variant: the statement names the entries of the key "models" only
InvokeResourcesModelsOnly(doc) ==
    LET ms == SelectSeq(AllEntries(doc), LAMBDA x : x.key = "models")
    IN  [i \in 1..Len(ms) |-> ResourcePattern(ms[i].item)]

\* the resources of the statement added to api_gateway_role
InvokeResources(doc) ==
    [i \in 1..Len(AllEntries(doc)) |-> ResourcePattern(AllEntries(doc)[i].item)]

\* the keyword defaults of SagemakerModelEndpoint.__init__
DefaultMaxCapacity == 1
DefaultMinCapacity == 1
DefaultInvocationsPerInstance == 5

\* initial_instance_count of the production variant
InitialInstanceCount == 1

\* the resolved model source: the package when model_package_name is truthy
ModelSource(model) ==
    IF Truthy(model.model_package_arn)
    THEN [kind |-> "package", ref |-> model.model_package_arn]
    ELSE [kind |-> "lookup", ref |-> model.model_id]

\* **model.get("autoscaling", {})
ScalingKwargs(model) ==
    IF Has(model.autoscaling) THEN Val(model.autoscaling) ELSE <<>>

\* variant: the initial instance count follows min_capacity
EndpointSpecScaledFromMin(model, at) ==
    LET kw == ScalingKwargs(model)
    IN  [at |-> at,
         id |-> Val(model.name),
         endpoint_name |-> EndpointName(Val(model.name)),
         source |-> ModelSource(model),
         instance_type |-> Val(model.instance),
         initial_instance_count |-> DictGet(kw, "min_capacity", DefaultMinCapacity),
         max_capacity |-> DictGet(kw, "max_capacity", DefaultMaxCapacity),
         min_capacity |-> DictGet(kw, "min_capacity", DefaultMinCapacity),
         target_value |-> DictGet(kw, "invocations_per_instance",
                                  DefaultInvocationsPerInstance)]

\* what SagemakerModelEndpoint.__init__ builds for a model entry
EndpointSpec(model, at) ==
    LET kw == ScalingKwargs(model)
    IN  [at |-> at,
         id |-> Val(model.name),
         endpoint_name |-> EndpointName(Val(model.name)),
         source |-> ModelSource(model),
         instance_type |-> Val(model.instance),
         initial_instance_count |-> InitialInstanceCount,
         max_capacity |-> DictGet(kw, "max_capacity", DefaultMaxCapacity),
         min_capacity |-> DictGet(kw, "min_capacity", DefaultMinCapacity),
         target_value |-> DictGet(kw, "invocations_per_instance",
                                  DefaultInvocationsPerInstance)]

\* appscaling.ScalableTarget(...) raises, at construction, for a minimum
\* capacity above the maximum capacity (aws-cdk-lib's own validation)
ScalableTargetOk(spec) == spec.min_capacity <= spec.max_capacity

\* Construct.__init__(scope, id) raises when the scope (the stack) already
\* holds a construct with this id (the constructs library's own validation)
ConstructIdTaken(id) == \E i \in 1..Len(endpoints) : endpoints[i].id = id

\* api.root.add_resource(name) raises when api.root already holds a resource
\* of this path part (a construct id again)
ResourceTaken(name) == \E i \in 1..Len(routes) : routes[i].path = name

\* variant: the failure is swallowed and the loop body goes on
AfterLookupSwallowed(ok) == "route"

\* get_model_info returns, or raises through every caller up to app.py
AfterLookup(ok) == IF ok THEN "route" ELSE "failed"

\* the headers a Direct route passes on: Content-Type, Accept, then the declared
DeclaredHeaders(integration) ==
    IF Has(integration.headers) THEN Val(integration.headers) ELSE <<>>

RECURSIVE HeaderParameters(_, _, _)
HeaderParameters(d, where, hs) ==
    IF hs = <<>> THEN d
    ELSE HeaderParameters(
             DictSet(d, <<where, Head(hs)>>,
                     IF where = "method.request.header" THEN <<"required">>
                     ELSE <<"method.request.header", Head(hs)>>),
             where, Tail(hs))

\* variant: the two fixed headers are left out
RequestParametersDeclaredOnly(where, integration) ==
    HeaderParameters(<<>>, where, DeclaredHeaders(integration))

\* request_parameters={"<where>.Content-Type": .., "<where>.Accept": .., **{declared}}
RequestParameters(where, integration) ==
    HeaderParameters(<<>>, where,
                     <<"Content-Type", "Accept">> \o DeclaredHeaders(integration))

DeclaredEnvironment(props) ==
    IF Has(props.environment) THEN Val(props.environment) ELSE <<>>

\* variant: the declared environment is unpacked last
FunctionEnvironmentDeclaredWins(props, name) ==
    DictMerge(<<<<"ENDPOINT_NAME", name>>>>, DeclaredEnvironment(props))

\* environment={**integration_props.get("environment", {}), "ENDPOINT_NAME": name}
FunctionEnvironment(props, name) ==
    DictMerge(DeclaredEnvironment(props), <<<<"ENDPOINT_NAME", name>>>>)

BasicExecutionRole == "service-role/AWSLambdaBasicExecutionRole"

\* variant: the inline policy is attached whatever the list holds
InlineStatementsUnguarded(props) ==
    <<[effect |-> "Allow",
       actions |-> IF Has(props.permissions) THEN Val(props.permissions) ELSE <<>>,
       resources |-> <<"*">>]>>

\* the inline policies of role_lambda_custom: one statement when permissions
\* is a non-empty list
InlineStatements(props) ==
    LET custom_permissions ==
            IF Has(props.permissions) THEN Val(props.permissions) ELSE <<>>
    IN  IF custom_permissions /= <<>>
        THEN <<[effect |-> "Allow", actions |-> custom_permissions,
                resources |-> <<"*">>]>>
        ELSE <<>>

\* the resource and method a Direct (api) entry gets
DirectRoute(model, at, name) ==
    [at |-> at, path |-> Val(model.name), integration |-> "api",
     endpoint_name |-> name,
     integration_request_parameters |->
         RequestParameters("integration.request.header", Val(model.integration)),
     method_request_parameters |->
         RequestParameters("method.request.header", Val(model.integration)),
     environment |-> <<>>, managed_policies |-> <<>>, inline_statements |-> <<>>]

\* the resource, function and role a Mediated (lambda) entry gets
MediatedRoute(model, at, name) ==
    LET integration_props == Val(Val(model.integration).properties)
    IN  [at |-> at, path |-> Val(model.name), integration |-> "lambda",
         endpoint_name |-> name,
         integration_request_parameters |-> <<>>,
         method_request_parameters |-> <<>>,
         environment |-> FunctionEnvironment(integration_props, name),
         managed_policies |-> <<BasicExecutionRole>>,
         inline_statements |-> InlineStatements(integration_props)]

\* the resource of an entry whose integration type is neither: no method
BareRoute(model, at, name) ==
    [at |-> at, path |-> Val(model.name), integration |-> "none",
     endpoint_name |-> name,
     integration_request_parameters |-> <<>>,
     method_request_parameters |-> <<>>,
     environment |-> <<>>, managed_policies |-> <<>>, inline_statements |-> <<>>]

---------------------------------------------------------------------------
(* Compilation: app.py and CentralizedMlApiStack.__init__ *)

NoEvent == [body |-> None, path |-> "", headers |-> <<>>]

HandlerIdle ==
    /\ ENDPOINT_NAME = None
    /\ event = NoEvent
    /\ hpc = "idle"
    /\ invocation = None
    /\ outcome = None
    /\ response = None
    /\ raised = None

Init ==
    /\ \E nm \in 0..MaxEntries : \E ne \in 0..(MaxEntries - nm) :
           \E nx \in 0..(MaxEntries - nm - ne) :
               \E d \in DocumentsOf(nm, ne), x \in [1..nx -> OtherKeyEntries],
                  place \in OtherKeyPlaces(nx) :
                   config = WithOtherKey(d, x, place)
    /\ pc = "start"
    /\ sec = 0
    /\ idx = 0
    /\ api_gateway_policy = None
    /\ endpoints = <<>>
    /\ model_endpoint_names = <<>>
    /\ model_endpoint_name = None
    /\ routes = <<>>
    /\ lookups = <<>>
    /\ plan = None
    /\ HandlerIdle

\* app.py: validate(instance=config, schema=schema); exit(1) on a ValidationError
Validate ==
    /\ pc = "start"
    /\ pc' = IF SchemaValid(config) THEN "stack" ELSE "rejected"
    /\ UNCHANGED <<config, sec, idx, api_gateway_policy, endpoints,
                   model_endpoint_names, model_endpoint_name, routes, lookups, plan>>
    /\ UNCHANGED handlerVars

\* the loops' next position, and the place the constructor goes to from there
Advance(k, i) ==
    LET n == NextPosition(config, k, i)
    IN  /\ sec' = n[1]
        /\ idx' = n[2]
        /\ pc' = IF n = <<0, 0>> THEN "constructed" ELSE "endpoint"

\* api_gateway_role.add_to_policy(...): item['name'] of every entry of every key
AddInvokePolicy ==
    /\ pc = "stack"
    /\ IF \A i \in 1..Len(AllEntries(config)) : Has(AllEntries(config)[i].item.name)
       THEN /\ api_gateway_policy' = Some(InvokeResources(config))
            /\ Advance(0, 0)
       ELSE /\ pc' = "failed"
            /\ UNCHANGED <<api_gateway_policy, sec, idx>>
    /\ UNCHANGED <<config, endpoints, model_endpoint_names, model_endpoint_name,
                   routes, lookups, plan>>
    /\ UNCHANGED handlerVars

\* the constructor raised: nothing more is built
Abort(next) ==
    /\ pc' = next
    /\ UNCHANGED <<endpoints, model_endpoint_names, model_endpoint_name>>

\* the construct is complete; line 140 reads its endpoint_name, line 145 appends it
EndpointBuilt(spec) ==
    IF ScalableTargetOk(spec)
    THEN /\ endpoints' = Append(endpoints, spec)
         /\ model_endpoint_name' = Some(spec.endpoint_name)
         /\ model_endpoint_names' = Append(model_endpoint_names, spec.endpoint_name)
         /\ pc' = "route"
    ELSE Abort("failed")

\* the loop body up to model_endpoint_names.append, for an entry of "models":
\* SagemakerModelEndpoint(self, id=model["name"], ...), which calls get_model_info
\* unless model_package_name is truthy
DeployModel ==
    /\ pc = "endpoint"
    /\ config[sec].key = "models"
    /\ LET model == config[sec].items[idx]
           spec == EndpointSpec(model, <<sec, idx>>)
       IN  IF ~Has(model.name) \/ ~Has(model.instance)
           THEN Abort("failed") /\ UNCHANGED lookups
           ELSE IF ConstructIdTaken(Val(model.name))
           THEN Abort("failed") /\ UNCHANGED lookups
           ELSE IF spec.source.kind = "package"
           THEN EndpointBuilt(spec) /\ UNCHANGED lookups
           ELSE \E ok \in BOOLEAN :
                /\ lookups' = Append(lookups,
                       [at |-> <<sec, idx>>, model_id |-> model.model_id,
                        instance_type |-> Val(model.instance), ok |-> ok])
                /\ IF ok THEN EndpointBuilt(spec) ELSE Abort(AfterLookup(ok))
    /\ UNCHANGED <<config, sec, idx, api_gateway_policy, routes, plan>>
    /\ UNCHANGED handlerVars

\* the loop body up to model_endpoint_names.append, for an entry of "endpoints"
UseExistingEndpoint ==
    /\ pc = "endpoint"
    /\ config[sec].key = "endpoints"
    /\ LET model == config[sec].items[idx]
       IN  IF ~Has(model.name)
           THEN Abort("failed")
           ELSE /\ model_endpoint_name' = model.name
                /\ model_endpoint_names' =
                       Append(model_endpoint_names, Val(model.name))
                /\ pc' = "route"
                /\ UNCHANGED endpoints
    /\ UNCHANGED <<config, sec, idx, api_gateway_policy, routes, lookups, plan>>
    /\ UNCHANGED handlerVars

\* variant: the branch of the integration type "api" is not taken
RouteForWithoutApi(model, at) ==
    IF ~Has(model.name) \/ ~Has(model_endpoint_name) THEN <<>>
    ELSE IF ResourceTaken(Val(model.name)) THEN <<>>
    ELSE IF ~Has(model.integration) THEN <<>>
    ELSE IF ~Has(Val(model.integration).type) THEN <<>>
    ELSE IF Val(Val(model.integration).type) = "lambda"
    THEN IF ~Has(Val(model.integration).properties) THEN <<>>
         ELSE IF ~Has(Val(Val(model.integration).properties).code) THEN <<>>
         ELSE <<MediatedRoute(model, at, Val(model_endpoint_name))>>
    ELSE <<BareRoute(model, at, Val(model_endpoint_name))>>

\* the loop body up to model_endpoint_names.append, for an entry of any other
\* key: neither branch assigns model_endpoint_name, so line 145 reads the
\* value the previous entry left, or raises UnboundLocalError when no entry
\* has assigned it yet
KeepEndpointName ==
    /\ pc = "endpoint"
    /\ config[sec].key \notin {"models", "endpoints"}
    /\ IF ~Has(model_endpoint_name)
       THEN Abort("failed")
       ELSE /\ model_endpoint_names' =
                   Append(model_endpoint_names, Val(model_endpoint_name))
            /\ pc' = "route"
            /\ UNCHANGED <<endpoints, model_endpoint_name>>
    /\ UNCHANGED <<config, sec, idx, api_gateway_policy, routes, lookups, plan>>
    /\ UNCHANGED handlerVars

\* what the rest of the loop body adds for the entry, <<>> when it raises
RouteFor(model, at) ==
    IF ~Has(model.name) \/ ~Has(model_endpoint_name) THEN <<>>
    ELSE IF ResourceTaken(Val(model.name)) THEN <<>>
    ELSE IF ~Has(model.integration) THEN <<>>
    ELSE IF ~Has(Val(model.integration).type) THEN <<>>
    ELSE IF Val(Val(model.integration).type) = "api"
    THEN <<DirectRoute(model, at, Val(model_endpoint_name))>>
    ELSE IF Val(Val(model.integration).type) = "lambda"
    THEN IF ~Has(Val(model.integration).properties) THEN <<>>
         ELSE IF ~Has(Val(Val(model.integration).properties).code) THEN <<>>
         ELSE <<MediatedRoute(model, at, Val(model_endpoint_name))>>
    ELSE <<BareRoute(model, at, Val(model_endpoint_name))>>

\* the rest of the loop body: api.root.add_resource(model["name"]) and the
\* method of the entry's integration type; then the next entry
AddRoute ==
    /\ pc = "route"
    /\ LET r == RouteFor(config[sec].items[idx], <<sec, idx>>)
       IN  IF r = <<>>
           THEN /\ pc' = "failed"
                /\ UNCHANGED <<routes, sec, idx>>
           ELSE /\ routes' = Append(routes, r[1])
                /\ Advance(sec, idx)
    /\ UNCHANGED <<config, api_gateway_policy, endpoints, model_endpoint_names,
                   model_endpoint_name, lookups, plan>>
    /\ UNCHANGED handlerVars

\* app.py: app.synth() writes the cloud assembly of the constructed stack
Synth ==
    /\ pc = "constructed"
    /\ plan' = Some([endpoints |-> endpoints, routes |-> routes,
                     invoke_resources |-> Val(api_gateway_policy)])
    /\ pc' = "synthesized"
    /\ UNCHANGED <<config, sec, idx, api_gateway_policy, endpoints,
                   model_endpoint_names, model_endpoint_name, routes, lookups>>
    /\ UNCHANGED handlerVars

Next ==
    \/ Validate
    \/ AddInvokePolicy
    \/ DeployModel
    \/ UseExistingEndpoint
    \/ KeepEndpointName
    \/ AddRoute
    \/ Synth

Spec == Init /\ [][Next]_vars

---------------------------------------------------------------------------
(* The mediating function: functions/example_function/index.py *)

\* A JSON text is the value it denotes and the way it is written; json.dumps
\* writes in one way (", " and ": " separators), other writers in others.
JsonText(value, style) == [value |-> value, style |-> style]

\* json.loads: <<>> stands for the JSONDecodeError of a malformed text
json_loads(text) == IF text.style = "malformed" THEN None ELSE Some(text.value)

\* json.dumps
json_dumps(value) == JsonText(value, "python")

RequestBodies ==
    {None,
     Some(JsonText("{inputs}", "compact")),
     Some(JsonText("{inputs}", "python")),
     Some(JsonText("", "malformed"))}

RequestPaths == {<<"/">> \o NameF, <<"/">> \o NameHyphenF}

RequestHeaders ==
    {<<>>,
     <<<<"Content-Type", "text/csv">>>>,
     <<<<"Content-Type", "text/csv">>, <<"Accept", "text/plain">>>>}

EnvironmentValues == {None, Some(EndpointName(NameF)), Some(NameH)}

\* what runtime.sagemaker answers an invoke_endpoint call with: a body, a
\* ClientError carrying the provider's error response, or an error of the
\* client itself (no response: a connection error, a timeout)
ProviderAnswers ==
    {[kind |-> "ok", Body |-> JsonText(v, st), HTTPStatusCode |-> 200,
      Code |-> "", Message |-> ""] :
        v \in {"[0.1]"}, st \in {"compact", "python", "malformed"}}
    \cup {[kind |-> "ClientError", Body |-> JsonText("", "malformed"),
           HTTPStatusCode |-> c[1], Code |-> c[2], Message |-> c[3]] :
            c \in {<<400, "ValidationError", "bad input">>,
                   <<424, "ModelError", "model failed">>,
                   <<500, "InternalFailure", "try again">>}}
    \cup {[kind |-> "BotoCoreError", Body |-> JsonText("", "malformed"),
           HTTPStatusCode |-> 0, Code |-> "", Message |-> ""]}

\* variant: every provider error becomes a 500
return_errorInternal(err) ==
    [statusCode |-> 500,
     body |-> json_dumps(err.Code \o ": " \o err.Message),
     headers |-> <<<<"content-type", "application/json">>>>]

\* return_error(err)
return_error(err) ==
    [statusCode |-> err.HTTPStatusCode,
     body |-> json_dumps(err.Code \o ": " \o err.Message),
     headers |-> <<<<"content-type", "application/json">>>>]

\* event["path"][1::] + "-endpoint": computed by lambda_handler, never used
PathEndpointName == Tail(event.path) \o EndpointSuffix

\* the endpoint_name argument lambda_handler passes to sync_invoke
InvokedEndpointName == ENDPOINT_NAME

InitHandler ==
    /\ ENDPOINT_NAME \in EnvironmentValues
    /\ event \in [body : RequestBodies, path : RequestPaths, headers : RequestHeaders]
    /\ hpc = "start"
    /\ invocation = None
    /\ outcome = None
    /\ response = None
    /\ raised = None
    /\ config = <<Section("models", <<>>)>>
    /\ pc = "deployed"
    /\ sec = 0
    /\ idx = 0
    /\ api_gateway_policy = None
    /\ endpoints = <<>>
    /\ model_endpoint_names = <<>>
    /\ model_endpoint_name = None
    /\ routes = <<>>
    /\ lookups = <<>>
    /\ plan = None

\* lambda_handler up to the call of sync_invoke, and sync_invoke up to the
\* call of invoke_endpoint: the payload is parsed and serialized again
CallEndpoint ==
    /\ hpc = "start"
    /\ IF ~Has(event.body) THEN
           /\ raised' = Some("TypeError")
           /\ hpc' = "raised"
           /\ UNCHANGED invocation
       ELSE IF ~Has(json_loads(Val(event.body))) THEN
           /\ raised' = Some("JSONDecodeError")
           /\ hpc' = "raised"
           /\ UNCHANGED invocation
       ELSE IF ~Has(InvokedEndpointName) THEN
           /\ raised' = Some("ParamValidationError")
           /\ hpc' = "raised"
           /\ UNCHANGED invocation
       ELSE
           /\ invocation' = Some(
                  [EndpointName |-> Val(InvokedEndpointName),
                   Body |-> json_dumps(Val(json_loads(Val(event.body)))),
                   ContentType |-> DictGet(event.headers, "Content-Type",
                                           "application/json"),
                   Accept |-> DictGet(event.headers, "Accept", "application/json")])
           /\ hpc' = "invoked"
           /\ UNCHANGED raised
    /\ UNCHANGED <<ENDPOINT_NAME, event, outcome, response>>
    /\ UNCHANGED compileVars

\* sagemaker_client.invoke_endpoint(...) comes back
Answer ==
    /\ hpc = "invoked"
    /\ \E a \in ProviderAnswers : outcome' = Some(a)
    /\ hpc' = "answered"
    /\ UNCHANGED <<ENDPOINT_NAME, event, invocation, response, raised>>
    /\ UNCHANGED compileVars

\* sync_invoke from the answer on: the body is decoded and returned with
\* status 200, a ClientError is returned as return_error(e), anything else
\* is raised
Return ==
    /\ hpc = "answered"
    /\ LET a == Val(outcome)
       IN  IF a.kind = "ClientError" THEN
               /\ response' = Some(return_error(a))
               /\ hpc' = "returned"
               /\ UNCHANGED raised
           ELSE IF a.kind = "ok" /\ Has(json_loads(a.Body)) THEN
               /\ response' = Some(
                      [statusCode |-> 200,
                       body |-> json_dumps(Val(json_loads(a.Body))),
                       headers |-> <<<<"Content-Type", "application/json">>>>])
               /\ hpc' = "returned"
               /\ UNCHANGED raised
           ELSE
               /\ raised' = Some(IF a.kind = "ok" THEN "JSONDecodeError"
                                 ELSE a.kind)
               /\ hpc' = "raised"
               /\ UNCHANGED response
    /\ UNCHANGED <<ENDPOINT_NAME, event, invocation, outcome>>
    /\ UNCHANGED compileVars

NextHandler ==
    \/ CallEndpoint
    \/ Answer
    \/ Return

SpecHandler == InitHandler /\ [][NextHandler]_vars

---------------------------------------------------------------------------
(* Properties *)

\* the configuration entry at a position
EntryAt(at) == config[at[1]].items[at[2]]
KeyAt(at) == config[at[1]].key

\* the entries of the key "models" / of the keys "models" and "endpoints"
ModelItems ==
    {x.item : x \in {y \in Elems(AllEntries(config)) : y.key = "models"}}
DeclaredItems ==
    {x.item : x \in {y \in Elems(AllEntries(config)) :
                        y.key \in {"models", "endpoints"}}}

\* the validator has run and let the document through
Accepted == pc \notin {"start", "rejected"}

NothingBuilt ==
    /\ api_gateway_policy = None /\ endpoints = <<>> /\ routes = <<>>
    /\ lookups = <<>> /\ plan = None

\* C1: once the validator has run, a document with a model entry that
\* carries both model_id and model_package_arn, or neither, is rejected, so
\* every model entry of an accepted document has exactly one of them; and a
\* rejected document leaves nothing built.
C1_ExactlyOneModelSource ==
    /\ ((pc /= "start" /\ (\E e \in ModelItems :
                             Has(e.model_id) = Has(e.model_package_arn)))
            => pc = "rejected")
    /\ (Accepted => \A e \in ModelItems :
                        Has(e.model_id) /= Has(e.model_package_arn))
    /\ (pc = "rejected" => NothingBuilt)

\* C1 witness: Scenario C, an otherwise valid entry with both fields, rejected
C1_Witness ==
    /\ pc = "rejected"
    /\ config = <<Section("models",
                    <<Entry(Some(NameF), Some("huggingface-bert"),
                            Some("arn:model-package/x"), Some("ml.m5.xlarge"),
                            None, PlainApi)>>)>>

\* C2: no call of get_model_info is made for a model entry whose
\* model_package_arn is set, whatever string it is set to.
C2_PackageNeverLooksUp ==
    \A i \in 1..Len(lookups) : ~Has(EntryAt(lookups[i].at).model_package_arn)

\* C3: when two model entries with distinct names have the same derived
\* endpoint name no plan is ever emitted, and no plan holds two endpoints
\* with the same name.
C3_FoldedNamesRejected ==
    /\ ((\E a, b \in ModelItems :
            /\ Has(a.name) /\ Has(b.name) /\ Val(a.name) /= Val(b.name)
            /\ EndpointName(Val(a.name)) = EndpointName(Val(b.name)))
        => plan = None)
    /\ (Has(plan) =>
            \A i, j \in 1..Len(Val(plan).endpoints) :
                i /= j => Val(plan).endpoints[i].endpoint_name
                            /= Val(plan).endpoints[j].endpoint_name)

\* a resource pattern with a wildcard suffix matches the names it prefixes
Matches(pattern, name) == pattern.wildcard /\ IsPrefix(pattern.prefix, name)

\* C4: in an emitted plan, every endpoint name a route is bound to is
\* matched by some resource pattern of the routing identity's invoke
\* statement.
C4_InvokePatternCoversEndpoints ==
    Has(plan) =>
        \A i \in 1..Len(Val(plan).routes) :
            \E j \in 1..Len(Val(plan).invoke_resources) :
                Matches(Val(plan).invoke_resources[j],
                        Val(plan).routes[i].endpoint_name)

\* the endpoint name of the entry at a position: derived for a model entry,
\* declared for a pre-existing endpoint entry
OwnEndpointName(at) ==
    IF KeyAt(at) = "models" THEN EndpointName(Val(EntryAt(at).name))
    ELSE Val(EntryAt(at).name)

\* C5: the environment of a mediating function has exactly one
\* ENDPOINT_NAME, whose value is the endpoint name the route is bound to (for
\* an entry of "models" or "endpoints", its own endpoint's name), also when
\* the declared environment defines ENDPOINT_NAME; every other declared key
\* keeps its declared value.
C5_EndpointNameInjected ==
    \A i \in 1..Len(routes) :
        routes[i].integration = "lambda" =>
            LET r == routes[i]
                props == Val(Val(EntryAt(r.at).integration).properties)
                declared == IF Has(props.environment) THEN Val(props.environment)
                            ELSE <<>>
            IN  /\ Cardinality({k \in 1..Len(r.environment) :
                                   r.environment[k][1] = "ENDPOINT_NAME"}) = 1
                /\ DictGet(r.environment, "ENDPOINT_NAME", <<>>) = r.endpoint_name
                /\ (KeyAt(r.at) \in {"models", "endpoints"}
                        => r.endpoint_name = OwnEndpointName(r.at))
                /\ \A k \in DictKeys(declared) \ {"ENDPOINT_NAME"} :
                       /\ DictHas(r.environment, k)
                       /\ DictGet(r.environment, k, <<>>) = DictGet(declared, k, <<>>)

\* C5 witness: an emitted plan with a mediated route of a model entry whose
\* declared environment defines ENDPOINT_NAME itself
C5_Witness ==
    /\ Has(plan)
    /\ \E i \in 1..Len(routes) :
        /\ routes[i].integration = "lambda"
        /\ KeyAt(routes[i].at) = "models"
        /\ LET props == Val(Val(EntryAt(routes[i].at).integration).properties)
           IN  /\ Has(props.environment)
               /\ DictHas(Val(props.environment), "ENDPOINT_NAME")
               /\ DictHas(Val(props.environment), "LOG_LEVEL")

\* the header names of a request_parameters dict
HeaderNames(d) == {k[2] : k \in DictKeys(d)}

\* C6: the required request headers of a Direct route's method are exactly
\* Content-Type, Accept and the declared headers, each once, and the headers
\* the integration passes through are the same, each taken from the method
\* request header of the same name.
C6_RequiredHeaders ==
    \A i \in 1..Len(routes) :
        routes[i].integration = "api" =>
            LET r == routes[i]
                integ == Val(EntryAt(r.at).integration)
                want == {"Content-Type", "Accept"}
                        \cup (IF Has(integ.headers) THEN Elems(Val(integ.headers))
                              ELSE {})
                m == r.method_request_parameters
                g == r.integration_request_parameters
            IN  /\ HeaderNames(m) = want
                /\ Len(m) = Cardinality(want)
                /\ \A k \in 1..Len(m) :
                       m[k][1][1] = "method.request.header" /\ m[k][2] = <<"required">>
                /\ HeaderNames(g) = want
                /\ Len(g) = Cardinality(want)
                /\ \A k \in 1..Len(g) :
                       /\ g[k][1][1] = "integration.request.header"
                       /\ g[k][2] = <<"method.request.header", g[k][1][2]>>

\* C6 witness: a Direct route whose declared headers repeat one and name Accept
C6_Witness ==
    /\ Has(plan)
    /\ \E i \in 1..Len(routes) :
        /\ routes[i].integration = "api"
        /\ Val(EntryAt(routes[i].at).integration).headers
             = Some(<<"Accept", "X-Custom", "X-Custom">>)

\* an integration of type lambda that lacks properties, or whose properties
\* lack one of code, permissions, timeout
LambdaWithoutProperties(e) ==
    /\ Has(e.integration)
    /\ Has(Val(e.integration).type)
    /\ Val(Val(e.integration).type) = "lambda"
    /\ \/ ~Has(Val(e.integration).properties)
       \/ ~Has(Val(Val(e.integration).properties).code)
       \/ ~Has(Val(Val(e.integration).properties).permissions)
       \/ ~Has(Val(Val(e.integration).properties).timeout)

\* an entry that is complete but for properties: a lower-case name, an api
\* integration with no properties and, for a model entry, an instance, one
\* model source and no autoscaling
PlainApiEntry(x) ==
    /\ x.item.name \in {Some(NameF), Some(NameHyphenF), Some(NameG), Some(NameH)}
    /\ Has(x.item.integration)
    /\ Val(x.item.integration).type = Some("api")
    /\ ~Has(Val(x.item.integration).properties)
    /\ (x.key = "models" =>
            /\ Has(x.item.instance)
            /\ Has(x.item.model_id) /= Has(x.item.model_package_arn)
            /\ ~Has(x.item.autoscaling))

\* C7: once the validator has run, a document with a model entry or a
\* pre-existing endpoint entry of integration type lambda that has no
\* properties object holding code, permissions and timeout is rejected; a
\* document with a "models" key all of whose entries are complete api
\* entries without properties is not rejected.
C7_LambdaNeedsProperties ==
    /\ ((pc /= "start" /\ (\E e \in DeclaredItems : LambdaWithoutProperties(e)))
            => pc = "rejected")
    /\ ((/\ pc /= "start"
         /\ (\E k \in 1..Len(config) : config[k].key = "models")
         /\ (\A x \in Elems(AllEntries(config)) : PlainApiEntry(x)))
            => pc /= "rejected")

\* C7 witness: Scenario D, an endpoint entry of type lambda and no properties
\* beside a model entry of type api and no properties, rejected
C7_Witness ==
    /\ pc = "rejected"
    /\ \E x, y \in Elems(AllEntries(config)) :
        /\ x.key = "endpoints"
        /\ Has(x.item.integration)
        /\ Val(x.item.integration).type = Some("lambda")
        /\ ~Has(Val(x.item.integration).properties)
        /\ y.key = "models"
        /\ PlainApiEntry(y)

\* C8: once a call of get_model_info has failed, the compilation has failed
\* and no plan is emitted, whatever was built for the entries before it.
C8_LookupFailureAborts ==
    (\E i \in 1..Len(lookups) : ~lookups[i].ok) => pc = "failed" /\ plan = None

\* C8 witness: the lookup of the second entry fails after the first entry's
\* endpoint and route were built
C8_Witness ==
    /\ Len(lookups) = 2
    /\ lookups[1].ok
    /\ ~lookups[2].ok
    /\ Len(endpoints) = 1
    /\ Len(routes) = 1

\* C9: an endpoint's autoscaling binding has the capacities and the target
\* its entry declares, or 1, 1 and 5 when the entry declares no autoscaling,
\* and its initial instance count is 1.
C9_AutoscalingBinding ==
    \A i \in 1..Len(endpoints) :
        LET e == endpoints[i]
            m == EntryAt(e.at)
        IN  /\ e.initial_instance_count = 1
            /\ IF Has(m.autoscaling)
               THEN /\ <<"max_capacity", e.max_capacity>> \in Elems(Val(m.autoscaling))
                    /\ <<"min_capacity", e.min_capacity>> \in Elems(Val(m.autoscaling))
                    /\ <<"invocations_per_instance", e.target_value>>
                           \in Elems(Val(m.autoscaling))
               ELSE e.max_capacity = 1 /\ e.min_capacity = 1 /\ e.target_value = 5

\* C9 witness: an emitted plan with an endpoint whose declared minimum is 2
\* beside one that declares no autoscaling
C9_Witness ==
    /\ Has(plan)
    /\ \E i, j \in 1..Len(endpoints) :
        /\ Has(EntryAt(endpoints[i].at).autoscaling)
        /\ endpoints[i].min_capacity = 2
        /\ ~Has(EntryAt(endpoints[j].at).autoscaling)

\* lambda_handler has ended, by returning or by raising
HandlerDone == hpc \in {"returned", "raised"}

\* C10: when the provider answers the invocation with an error response
\* (a ClientError), lambda_handler returns, and does not raise, a response
\* with the provider's HTTP status code and the JSON string
\* "<Code>: <Message>" as body; when the provider answers with a JSON
\* body, it returns status 200 with that body's value written as JSON; and
\* the endpoint it invokes is the one ENDPOINT_NAME names.
C10_FailuresAreResponses ==
    /\ (HandlerDone /\ Has(outcome) /\ Val(outcome).kind = "ClientError" =>
            /\ hpc = "returned" /\ raised = None /\ Has(response)
            /\ Val(response).statusCode = Val(outcome).HTTPStatusCode
            /\ Val(response).body =
                   JsonText(Val(outcome).Code \o ": " \o Val(outcome).Message,
                            "python"))
    /\ (HandlerDone /\ Has(outcome) /\ Val(outcome).kind = "ok"
        /\ Val(outcome).Body.style /= "malformed" =>
            /\ hpc = "returned" /\ raised = None /\ Has(response)
            /\ Val(response).statusCode = 200
            /\ Val(response).body = JsonText(Val(outcome).Body.value, "python"))
    /\ (Has(invocation) =>
            Has(ENDPOINT_NAME) /\ Val(invocation).EndpointName = Val(ENDPOINT_NAME))

\* C10 witness: a ModelError (424) returned as a response, by a function whose
\* request path does not name the endpoint ENDPOINT_NAME names
C10_Witness ==
    /\ hpc = "returned"
    /\ Val(outcome).kind = "ClientError"
    /\ Val(outcome).HTTPStatusCode = 424
    /\ Val(response).statusCode = 424
    /\ PathEndpointName /= Val(ENDPOINT_NAME)

\* the model entries whose endpoint has been built
EndpointBuiltAt(at) == \E i \in 1..Len(endpoints) : endpoints[i].at = at

DeclaredPositions ==
    {x.at : x \in {y \in Elems(AllEntries(config)) :
                      y.key \in {"models", "endpoints"}}}

\* the routes, of a sequence of routes, that belong to the entry at a position
RoutesAt(rs, at) == {i \in 1..Len(rs) : rs[i].at = at}

\* the routing state of the entry at a position: bound once a method with an
\* integration is on its resource
RoutingState(rs, at) ==
    IF \E i \in RoutesAt(rs, at) : rs[i].integration = "api" THEN "DirectBound"
    ELSE IF \E i \in RoutesAt(rs, at) : rs[i].integration = "lambda"
    THEN "MediatedBound"
    ELSE "Unrouted"

\* C12: every entry of "models" and "endpoints" is Unrouted until the loop
\* begins; no entry ever has two routes; in a completed compilation every such
\* entry is DirectBound when its integration.type is "api" and MediatedBound
\* when it is "lambda", none being left Unrouted; and an entry that is bound
\* keeps its state in every step.
C12_RoutingStateMachine ==
    /\ [](/\ (pc \in {"start", "stack", "rejected"} =>
                 \A at \in DeclaredPositions : RoutingState(routes, at) = "Unrouted")
          /\ \A at \in DeclaredPositions : Cardinality(RoutesAt(routes, at)) <= 1
          /\ (Has(plan) =>
                 /\ Val(plan).routes = routes
                 /\ \A at \in DeclaredPositions :
                        RoutingState(routes, at) =
                            CASE Val(Val(EntryAt(at).integration).type) = "api"
                                     -> "DirectBound"
                              [] Val(Val(EntryAt(at).integration).type) = "lambda"
                                     -> "MediatedBound"
                              [] OTHER -> "NoSuchState"))
    /\ [][\A at \in DeclaredPositions :
              RoutingState(routes, at) /= "Unrouted" =>
                  /\ RoutingState(routes', at) = RoutingState(routes, at)
                  /\ RoutesAt(routes', at) = RoutesAt(routes, at)]_vars

\* C12 witness: a completed compilation of a model entry bound directly and an
\* endpoint entry bound through a function
C12_Witness ==
    /\ Has(plan)
    /\ \E a, b \in DeclaredPositions :
           /\ KeyAt(a) = "models" /\ RoutingState(routes, a) = "DirectBound"
           /\ KeyAt(b) = "endpoints" /\ RoutingState(routes, b) = "MediatedBound"

\* an entry of "models" or "endpoints" whose integration.type is present and
\* is neither "api" nor "lambda"
UnknownIntegrationType(e) ==
    /\ Has(e.integration)
    /\ Has(Val(e.integration).type)
    /\ Val(Val(e.integration).type) \notin {"api", "lambda"}

\* C13: once the validator has run, a document with an entry of "models" or
\* "endpoints" whose integration.type is present and is neither "api" nor
\* "lambda" is rejected with nothing built, so it never yields a plan; and
\* no entry of "models" or "endpoints" ever gets a route path that has no
\* integration bound to it.
C13_UnknownTypeFails ==
    /\ ((pc /= "start" /\ (\E e \in DeclaredItems : UnknownIntegrationType(e)))
            => (pc = "rejected" /\ NothingBuilt))
    /\ \A i \in 1..Len(routes) :
           routes[i].at \in DeclaredPositions => routes[i].integration /= "none"

\* C13 witness: a document whose second model entry has the type "grpc",
\* after a valid first entry, is rejected
C13_Witness ==
    /\ pc = "rejected"
    /\ \E k \in 1..Len(config) :
           /\ config[k].key = "models"
           /\ Len(config[k].items) = 2
           /\ ~UnknownIntegrationType(config[k].items[1])
           /\ ModelEntryOk(config[k].items[1])
           /\ UnknownIntegrationType(config[k].items[2])

\* integration.properties.permissions of an entry, <<>> when there is none
DeclaredPermissions(e) ==
    LET p == Val(Val(e.integration).properties)
    IN  IF Has(p.permissions) THEN Val(p.permissions) ELSE <<>>

\* the entry of a route has the integration type "lambda"
MediatedEntry(e) ==
    /\ Has(e.integration)
    /\ Has(Val(e.integration).type)
    /\ Val(Val(e.integration).type) = "lambda"

\* C14: the execution role of the function of every routed entry with a
\* lambda integration has the managed policy AWSLambdaBasicExecutionRole; it
\* has an inline statement if and only if integration.properties.permissions
\* is non-empty, and then exactly one, an Allow whose actions are exactly the
\* declared permissions; with an empty list it has the managed policy only.
C14_ExecutionIdentity ==
    \A i \in 1..Len(routes) :
        MediatedEntry(EntryAt(routes[i].at)) =>
            LET r == routes[i]
                declared == DeclaredPermissions(EntryAt(r.at))
            IN  /\ r.integration = "lambda"
                /\ r.managed_policies = <<"service-role/AWSLambdaBasicExecutionRole">>
                /\ (r.inline_statements /= <<>>) <=> (declared /= <<>>)
                /\ (declared /= <<>> =>
                       /\ Len(r.inline_statements) = 1
                       /\ r.inline_statements[1].effect = "Allow"
                       /\ r.inline_statements[1].actions = declared)

\* C14 witness: a completed compilation with a function that was given two
\* permissions and a function that was given the empty list
C14_Witness ==
    /\ Has(plan)
    /\ \E i, j \in 1..Len(routes) :
           /\ routes[i].integration = "lambda"
           /\ Len(DeclaredPermissions(EntryAt(routes[i].at))) = 2
           /\ Len(routes[i].inline_statements) = 1
           /\ routes[j].integration = "lambda"
           /\ DeclaredPermissions(EntryAt(routes[j].at)) = <<>>
           /\ routes[j].inline_statements = <<>>

\* the positions of the document under the given top-level keys
PositionsOf(keys) ==
    UNION {{<<k, i>> : i \in 1..Len(config[k].items)} :
              k \in {j \in 1..Len(config) : config[j].key \in keys}}

\* configuration order: the keys in document order, the items of a key in
\* list order
Before(a, b) == a[1] < b[1] \/ (a[1] = b[1] /\ a[2] < b[2])

\* a sequence of records with a field at is in configuration order, no
\* position twice
InConfigurationOrder(rs) ==
    \A i, j \in 1..Len(rs) : i < j => Before(rs[i].at, rs[j].at)

\* C15: a plan holds exactly one endpoint spec per entry of "models" and no
\* other, and exactly one route per entry of "models" and "endpoints" with
\* the entry's name as its path; the endpoint specs and the routes are in
\* configuration order; and a lookup is only ever made for an entry of
\* "models".
C15_OnePerEntryInOrder ==
    /\ \A i \in 1..Len(lookups) : KeyAt(lookups[i].at) = "models"
    /\ \A i \in 1..Len(endpoints) : KeyAt(endpoints[i].at) = "models"
    /\ (Has(plan) =>
           LET es == Val(plan).endpoints
               rs == Val(plan).routes
           IN  /\ \A at \in PositionsOf({"models"}) :
                      Cardinality({i \in 1..Len(es) : es[i].at = at}) = 1
               /\ Len(es) = Cardinality(PositionsOf({"models"}))
               /\ \A i \in 1..Len(es) : es[i].id = Val(EntryAt(es[i].at).name)
               /\ InConfigurationOrder(es)
               /\ \A at \in PositionsOf({"models", "endpoints"}) :
                      /\ Cardinality({i \in 1..Len(rs) : rs[i].at = at}) = 1
                      /\ \A i \in 1..Len(rs) :
                             rs[i].at = at => rs[i].path = Val(EntryAt(at).name)
               /\ InConfigurationOrder(rs))

\* C15 witness: a plan of a document that lists "endpoints" before "models",
\* with one endpoint spec, for the model entry, and two routes in that order
C15_Witness ==
    /\ Has(plan)
    /\ Len(Val(plan).endpoints) = 1
    /\ Len(Val(plan).routes) = 2
    /\ KeyAt(Val(plan).routes[1].at) = "endpoints"
    /\ KeyAt(Val(plan).routes[2].at) = "models"
    /\ Val(plan).endpoints[1].at = Val(plan).routes[2].at

\* C16: every route, of an entry under any top-level key of an accepted
\* document, is bound to the endpoint of its own entry (the derived name for
\* an entry of "models", the declared name otherwise), and so is the
\* ENDPOINT_NAME of its function's environment; the name appended to
\* model_endpoint_names for the entry is that name too.
C16_RouteBoundToOwnEndpoint ==
    /\ \A i \in 1..Len(routes) :
           /\ routes[i].endpoint_name = OwnEndpointName(routes[i].at)
           /\ (routes[i].integration = "lambda" =>
                   DictGet(routes[i].environment, "ENDPOINT_NAME", <<>>) =
                       OwnEndpointName(routes[i].at))
    /\ \A i \in 1..Len(model_endpoint_names) :
           i <= Len(routes) =>
               model_endpoint_names[i] = OwnEndpointName(routes[i].at)

====
